---- MODULE Spec2Model ----
(***************************************************************************)
(* Model of the Panini core class (src/unnamed/part_002): the construction *)
(* of an instance, the setup()/onReady()/compile()/compileStream()         *)
(* lifecycle with its asynchronous loads, and the assembly of a page's     *)
(* template data by getPageData()/getHelpers().                            *)
(*                                                                         *)
(* Asynchrony is modelled at the granularity of JavaScript jobs: a call of *)
(* the public API is one action (it runs to completion), the completion of *)
(* every asynchronous load is one action, and every promise reaction       *)
(* (a .then callback) is one action that runs some time after the promise  *)
(* it reacts to has settled.  The caller may make a call between any two   *)
(* of these steps.                                                         *)
(***************************************************************************)
EXTENDS Integers, Sequences, FiniteSets, TLC

\* Number of setup() calls and of compile()/compileStream() calls explored.
MaxSetups == 2
MaxCompiles == 1

Cycles == 1..MaxSetups
Calls == 1..MaxCompiles

(***************************************************************************)
(* The project folder.  Data files are listed in discovery order; a file   *)
(* is <<folder, basename, extension>> below the data folder.               *)
(***************************************************************************)
DataFiles == << <<"a", "site", ".json">>, <<"b", "site", ".yml">> >>

\* Sub-folders of the collections folder; tryRequire() finds a configuration
\* module only in some of them.
CollectionFolders == {"posts", "drafts"}
ValidCollections == {"posts"}

\* Content of the locales folder as folderToObject() returns it.
LocaleTable == [en |-> "hello", fr |-> "bonjour"]

\* Engines for which ../engines/<name> exists.
KnownEngines == {"handlebars", "pug", "ejs"}

\* The empty object {}.
EmptyObj == [k \in {} |-> 0]

VARIABLES
  dataFiles,      \* the data files of the project folder, in discovery order
  enginePkg,      \* whether require.resolve(Engine.requires) finds the package
  options,        \* this.options (input, engine, builtins, pageLayouts)
  engine,         \* this.engine: exists, hasSetup, layouts, i18n
  initialized,    \* this.initialized
  ready,          \* this.ready
  nSetup,         \* number of setup() calls made
  cycles,         \* per setup() call: the state of its promises and events
  engineData,     \* this.engine.data
  localeData,     \* this.engine.localeData
  collections,    \* this.engine.collections
  nCompile,       \* number of compile()/compileStream() calls made
  comps,          \* per compile call: position in its promise chain, events
  listeners,      \* once('setup_done') listeners, in registration order
  pdIn,           \* arguments of the last getPageData() call
  pdOut,          \* value returned by the last getPageData() call
  pdPrev,         \* arguments and value of the getPageData() call before it
  pass            \* the pages of a build pass: rendered data, sink calls

lifeVars == <<ready, nSetup, cycles, engineData, localeData, collections,
              nCompile, comps, listeners>>
confVars == <<dataFiles, enginePkg, options, engine, initialized>>
pageVars == <<pdIn, pdOut, pdPrev, pass>>
vars == <<dataFiles, enginePkg, options, engine, initialized, ready, nSetup, cycles, engineData,
          localeData, collections, nCompile, comps, listeners, pdIn, pdOut,
          pdPrev, pass>>

FileIds == 1..Len(dataFiles)

\* path.basename(filePath, path.extname(filePath)) of a data file.
DataName(i) == dataFiles[i][2]

\* What load(filePath) resolves to: the parsed content of that file.
DataContent(i) == <<"s", dataFiles[i][1] \o "/" \o dataFiles[i][2] \o dataFiles[i][3]>>

(***************************************************************************)
(* Construction (constructor, lines 41-86).                                *)
(***************************************************************************)
NoEngine == [exists |-> FALSE, hasSetup |-> FALSE, layouts |-> FALSE, i18n |-> FALSE]

\* A constructor that does not check that the engine's package is installed.
ConstructorValidNoRequires(input, engineName, depInstalled) ==
  /\ input # ""
  /\ engineName \in KnownEngines

\* The three validations of the constructor, in order; each returns early.
ConstructorValid(input, engineName, depInstalled) ==
  /\ input # ""
  /\ engineName \in KnownEngines
  /\ depInstalled

\* State of a cycle before its setup() call.
NoCycle ==
  [st |-> "none", eng |-> "none",
   files |-> << >>, loc |-> "none",
   cols |-> [n \in CollectionFolders |-> "none"], build |-> "none",
   start |-> 0, done |-> 0, snap |-> << >>]

\* State of a compile call before it is made.
NoCall ==
  [pc |-> "idle", kind |-> "none", parsing |-> 0, built |-> 0, error |-> 0]

NoPageCall == [called |-> FALSE]

\* A build pass before render has looked for pages.  err is the error the
\* 'error' event of the pass carries.
NoPass ==
  [pages |-> << >>, failed |-> {}, out |-> << >>, sunk |-> {}, written |-> {},
   rejected |-> {}, counts |-> << >>, err |-> <<"u", "undefined">>]

Constructed(files, input, engineName, builtins, depInstalled, eng) ==
  /\ dataFiles = files
  /\ enginePkg = depInstalled
  /\ options = [input |-> input, engine |-> engineName, builtins |-> builtins,
                pageLayouts |-> EmptyObj]
  /\ ready = FALSE
  /\ IF ConstructorValid(input, engineName, depInstalled)
       THEN engine = eng /\ initialized = TRUE
       ELSE engine = NoEngine /\ initialized = FALSE
  /\ nSetup = 0
  /\ cycles = [c \in Cycles |-> NoCycle]
  /\ engineData = EmptyObj
  /\ localeData = EmptyObj
  /\ collections = EmptyObj
  /\ nCompile = 0
  /\ comps = [k \in Calls |-> NoCall]
  /\ listeners = << >>
  /\ pdIn = NoPageCall
  /\ pdOut = EmptyObj
  /\ pdPrev = NoPageCall
  /\ pass = NoPass

Init ==
  \E input \in {"", "src"}, engineName \in {"handlebars", "nope"},
     depInstalled \in BOOLEAN, hasSetup \in BOOLEAN :
    Constructed(SubSeq(DataFiles, 1, 1), input, engineName, TRUE, depInstalled,
                [exists |-> TRUE, hasSetup |-> hasSetup,
                 layouts |-> TRUE, i18n |-> TRUE])

(***************************************************************************)
(* setup() (lines 92-136).                                                 *)
(***************************************************************************)
\* Line 94 reads this.engine.setup: a TypeError when the constructor
\* returned before creating the engine.
EngineMissing == ~engine.exists

\* Line 94/103: without engine.setup, engineSetup is the unbound
\* Promise.resolve, and calling it throws a TypeError.
EngineSetupThrows == ~engine.hasSetup

\* PaniniEngine.mapPaths(): its promise resolves once the callback has been
\* called for every path found and every promise a callback returned has
\* resolved; a callback that returns nothing ("skipped") holds nothing up.
mapPathsResolved(parts) ==
  \A p \in DOMAIN parts : parts[p] \in {"settled", "skipped"}

\* A setup() whose collection promise is not part of Promise.all().
AllResolvedNoBuild(cy) ==
  /\ cy.st = "pending"
  /\ cy.eng = "settled"
  /\ mapPathsResolved(cy.files)
  /\ cy.loc = "settled"

\* The promises Promise.all() waits for have all resolved.
AllResolved(cy) ==
  /\ cy.st = "pending"
  /\ cy.eng = "settled"
  /\ mapPathsResolved(cy.files)
  /\ cy.loc = "settled"
  /\ mapPathsResolved(cy.cols) /\ cy.build = "settled"

\* A promise of the cycle rejected: Promise.all() rejects with it, unless it
\* has rejected before.  A part is "pending" until its promise settles and
\* "settled" afterwards, a collection load that rejected is "rejected"; a
\* cycle none of whose parts rejected stays "pending" until the reaction of
\* lines 132-135 has run.
Rejected(cy) == [cy EXCEPT !.st = IF cy.st = "pending" THEN "rejected" ELSE cy.st]

\* The cycle still has a promise to settle or its reaction to run.
InFlight(cy) ==
  \/ cy.st = "pending"
  \/ cy.eng = "pending"
  \/ \E i \in DOMAIN cy.files : cy.files[i] = "pending"
  \/ cy.loc = "pending"
  \/ \E n \in CollectionFolders : cy.cols[n] = "pending"

\* The caller overlaps at most two setup() calls: it starts another one only
\* when at most one earlier call has work outstanding.
\* A collection folder whose config module is required like the others, with
\* no check of what tryRequire returned.
CollectionStartNoSkip(n) == "pending"

\* The start of one collection folder's load: a folder whose config module
\* cannot be required is skipped, the others have their template read.
CollectionStart(n) == IF n \in ValidCollections THEN "pending" ELSE "skipped"

SetupCall ==
  /\ nSetup < MaxSetups
  /\ \A c1, c2 \in Cycles : InFlight(cycles[c1]) /\ InFlight(cycles[c2]) => c1 = c2
  /\ nSetup' = nSetup + 1
  /\ LET c == nSetup + 1 IN
     IF EngineMissing
       THEN /\ cycles' = [cycles EXCEPT ![c].st = "threw"]
            /\ UNCHANGED <<ready, engineData, collections>>
       ELSE /\ ready' = FALSE
            /\ engineData' = EmptyObj
            /\ collections' = EmptyObj
            /\ IF EngineSetupThrows
                 THEN cycles' = [cycles EXCEPT ![c].st = "threw", ![c].start = 1]
                 ELSE cycles' = [cycles EXCEPT ![c] =
                        [st |-> "pending", eng |-> "pending",
                         files |-> [i \in FileIds |-> "pending"],
                         loc |-> "pending",
                         cols |-> [n \in CollectionFolders |-> CollectionStart(n)],
                         build |-> "wait", start |-> 1, done |-> 0,
                         snap |-> << >>]]
  /\ UNCHANGED <<confVars, localeData, nCompile, comps, listeners, pageVars>>

\* this.engine.setup() settles.
EngineSetupDone(c) ==
  /\ cycles[c].eng = "pending"
  /\ \/ cycles' = [cycles EXCEPT ![c].eng = "settled"]
     \/ cycles' = [cycles EXCEPT ![c] = Rejected([cycles[c] EXCEPT !.eng = "settled"])]
  /\ UNCHANGED <<confVars, ready, nSetup, engineData, localeData, collections,
                 nCompile, comps, listeners, pageVars>>

\* load(filePath) of one data file settles (lines 105-111).
DataLoadDone(c, i) ==
  /\ i \in DOMAIN cycles[c].files
  /\ cycles[c].files[i] = "pending"
  /\ \/ /\ cycles' = [cycles EXCEPT ![c].files[i] = "settled"]
        /\ engineData' = [k \in DOMAIN engineData \cup {DataName(i)} |->
                            IF k = DataName(i) THEN DataContent(i) ELSE engineData[k]]
     \/ /\ cycles' = [cycles EXCEPT ![c] = Rejected([cycles[c] EXCEPT !.files[i] = "settled"])]
        /\ UNCHANGED engineData
  /\ UNCHANGED <<confVars, ready, nSetup, localeData, collections,
                 nCompile, comps, listeners, pageVars>>

\* folderToObject() settles (lines 113-116).
LocaleLoadDone(c) ==
  /\ cycles[c].loc = "pending"
  /\ \/ /\ cycles' = [cycles EXCEPT ![c].loc = "settled"]
        /\ localeData' = LocaleTable
     \/ /\ cycles' = [cycles EXCEPT ![c] = Rejected([cycles[c] EXCEPT !.loc = "settled"])]
        /\ UNCHANGED localeData
  /\ UNCHANGED <<confVars, ready, nSetup, engineData, collections,
                 nCompile, comps, listeners, pageVars>>

\* The template of one collection has been read (lines 118-130).
CollectionLoadDone(c, n) ==
  /\ cycles[c].cols[n] = "pending"
  /\ \/ /\ cycles' = [cycles EXCEPT ![c].cols[n] = "settled"]
        /\ collections' = [k \in DOMAIN collections \cup {n} |->
                             IF k = n THEN [config |-> n, template |-> n]
                                      ELSE collections[k]]
     \/ /\ cycles' = [cycles EXCEPT ![c] = Rejected([cycles[c] EXCEPT !.cols[n] = "rejected"])]
        /\ UNCHANGED collections
  /\ UNCHANGED <<confVars, ready, nSetup, engineData, localeData,
                 nCompile, comps, listeners, pageVars>>

\* this.engine.buildCollections() runs in the .then of the mapPaths promise
\* (line 131): once every collection load has resolved, and never when one of
\* them rejected.
BuildCollections(c) ==
  /\ cycles[c].build = "wait"
  /\ mapPathsResolved(cycles[c].cols)
  /\ \/ cycles' = [cycles EXCEPT ![c].build = "settled"]
     \/ cycles' = [cycles EXCEPT ![c] = Rejected([cycles[c] EXCEPT !.build = "settled"])]
  /\ UNCHANGED <<confVars, ready, nSetup, engineData, localeData, collections,
                 nCompile, comps, listeners, pageVars>>

\* The reaction to Promise.all() (lines 132-135): ready, then setup_done,
\* whose once-listeners resolve the onReady() promises of waiting calls.
SetupThen(c) ==
  /\ cycles[c].st = "pending"
  /\ AllResolved(cycles[c])
  /\ ready' = TRUE
  /\ cycles' = [cycles EXCEPT ![c].st = "resolved", ![c].done = @ + 1]
  /\ comps' = [k \in Calls |->
                 IF \E j \in 1..Len(listeners) : listeners[j] = k
                   THEN [comps[k] EXCEPT !.pc = "resolved"]
                   ELSE comps[k]]
  /\ listeners' = << >>
  /\ UNCHANGED <<confVars, nSetup, engineData, localeData, collections,
                 nCompile, pageVars>>

\* A reaction the caller chained to the promise setup() call c returned
\* (line 132), as in p.setup().then(() => read(p.engine)): a job that runs
\* after the reaction of lines 132-135, and after whatever was queued in
\* between.  It reads engine.data and engine.localeData; the count of the
\* setup() calls made so far is kept with what it read.
SetupRead(c) ==
  /\ cycles[c].st = "resolved"
  /\ cycles[c].snap = << >>
  /\ cycles' = [cycles EXCEPT ![c].snap = <<engineData, localeData, nSetup>>]
  /\ UNCHANGED <<confVars, ready, nSetup, engineData, localeData, collections,
                 nCompile, comps, listeners, pageVars>>

(***************************************************************************)
(* onReady(), compile(), compileStream() (lines 142-152, 280-317).         *)
(***************************************************************************)
\* The call itself: onReady() resolves at once or registers a listener.
CompileCall(kind) ==
  /\ nCompile < MaxCompiles
  /\ nCompile' = nCompile + 1
  /\ LET k == nCompile + 1 IN
     IF ready
       THEN /\ comps' = [comps EXCEPT ![k].pc = "resolved", ![k].kind = kind]
            /\ UNCHANGED listeners
       ELSE /\ comps' = [comps EXCEPT ![k].pc = "waiting", ![k].kind = kind]
            /\ listeners' = Append(listeners, k)
  /\ UNCHANGED <<confVars, ready, nSetup, cycles, engineData, localeData,
                 collections, pageVars>>

\* The first reaction of the chain: emit 'parsing', call render.
CompileParse(k) ==
  /\ comps[k].pc = "resolved"
  /\ comps' = [comps EXCEPT ![k].pc = "rendering", ![k].parsing = @ + 1]
  /\ UNCHANGED <<confVars, ready, nSetup, cycles, engineData, localeData,
                 collections, nCompile, listeners, pageVars>>

\* What the reaction that emits 'built' does to a call (lines 289, 312-313):
\* the listeners of 'built' run inside emit(); when one of them throws, the
\* reaction throws and the promise the catch is chained to rejects
\* ("caught"); the catch runs as a later job.
EmitBuilt(call, listenerThrows) ==
  [call EXCEPT !.pc = IF listenerThrows THEN "caught" ELSE "built",
               !.built = @ + 1]

\* render and buildPages resolved: emit 'built'.
CompileBuilt(k) ==
  /\ comps[k].pc = "rendering"
  /\ \E listenerThrows \in BOOLEAN :
       comps' = [comps EXCEPT ![k] = EmitBuilt(comps[k], listenerThrows)]
  /\ UNCHANGED <<confVars, ready, nSetup, cycles, engineData, localeData,
                 collections, nCompile, listeners, pageVars>>

\* render or buildPages rejected, or the reaction that emits 'built' threw:
\* the catch, chained after that reaction, emits 'error'.
CompileError(k) ==
  /\ comps[k].pc \in {"rendering", "caught"}
  /\ comps' = [comps EXCEPT ![k].pc = "error", ![k].error = @ + 1]
  /\ UNCHANGED <<confVars, ready, nSetup, cycles, engineData, localeData,
                 collections, nCompile, listeners, pageVars>>

\* A project whose data folder has two files with the same basename, and an
\* engine with a setup(); only setup() is called.
LoadInit ==
  Constructed(DataFiles, "src", "handlebars", TRUE, TRUE,
              [exists |-> TRUE, hasSetup |-> TRUE, layouts |-> TRUE, i18n |-> TRUE])

LoadNext ==
  \/ SetupCall
  \/ \E c \in Cycles : EngineSetupDone(c)
  \/ \E c \in Cycles, i \in FileIds : DataLoadDone(c, i)
  \/ \E c \in Cycles : LocaleLoadDone(c)
  \/ \E c \in Cycles, n \in CollectionFolders : CollectionLoadDone(c, n)
  \/ \E c \in Cycles : BuildCollections(c)
  \/ \E c \in Cycles : SetupThen(c)

SpecLoad == LoadInit /\ [][LoadNext]_vars

\* A caller that calls setup() again only once the promise of the call
\* before has settled and nothing that call started is still running.
SetupCallAwaited ==
  /\ \A c \in Cycles :
       /\ ~InFlight(cycles[c])
       /\ ~(cycles[c].build = "wait" /\ mapPathsResolved(cycles[c].cols))
  /\ SetupCall

TwiceNext ==
  \/ SetupCallAwaited
  \/ \E c \in Cycles : EngineSetupDone(c)
  \/ \E c \in Cycles, i \in FileIds : DataLoadDone(c, i)
  \/ \E c \in Cycles : LocaleLoadDone(c)
  \/ \E c \in Cycles, n \in CollectionFolders : CollectionLoadDone(c, n)
  \/ \E c \in Cycles : BuildCollections(c)
  \/ \E c \in Cycles : SetupThen(c)
  \/ \E c \in Cycles : SetupRead(c)

SpecTwice == LoadInit /\ [][TwiceNext]_vars

Next ==
  \/ SetupCall
  \/ \E c \in Cycles : EngineSetupDone(c)
  \/ \E c \in Cycles, i \in FileIds : DataLoadDone(c, i)
  \/ \E c \in Cycles : LocaleLoadDone(c)
  \/ \E c \in Cycles, n \in CollectionFolders : CollectionLoadDone(c, n)
  \/ \E c \in Cycles : BuildCollections(c)
  \/ \E c \in Cycles : SetupThen(c)
  \/ \E kind \in {"compile", "compileStream"} : CompileCall(kind)
  \/ \E k \in Calls : CompileParse(k)
  \/ \E k \in Calls : CompileBuilt(k)
  \/ \E k \in Calls : CompileError(k)

\* The steps the event loop takes by itself: settled promises have their
\* reactions run and started loads complete.  Calls of the API are the
\* caller's choice.
Progress ==
  \/ \E c \in Cycles : EngineSetupDone(c)
  \/ \E c \in Cycles, i \in FileIds : DataLoadDone(c, i)
  \/ \E c \in Cycles : LocaleLoadDone(c)
  \/ \E c \in Cycles, n \in CollectionFolders : CollectionLoadDone(c, n)
  \/ \E c \in Cycles : BuildCollections(c)
  \/ \E c \in Cycles : SetupThen(c)
  \/ \E k \in Calls : CompileParse(k)
  \/ \E k \in Calls : CompileBuilt(k)
  \/ \E k \in Calls : CompileError(k)

Spec == Init /\ [][Next]_vars

FairSpec == Init /\ [][Next]_vars /\ WF_vars(Progress)

(***************************************************************************)
(* Properties of the lifecycle.                                            *)
(***************************************************************************)
\* Every piece of work of a setup() call has completed.
WorkCompleted(cy) ==
  /\ cy.eng = "settled"
  /\ \A i \in DOMAIN cy.files : cy.files[i] = "settled"
  /\ cy.loc = "settled"
  /\ \A n \in CollectionFolders : cy.cols[n] \in {"settled", "skipped"}
  /\ cy.build = "settled"

\* The 'error' events emitted so far.
ErrorEmitted == \E k \in Calls : comps[k].error > 0

\* C1: a compile call emits 'parsing' and calls render only while ready is
\* true: no step in which a call emits 'parsing' is taken with ready false.
C1_ParsingOnlyWhileReady ==
  [][\A k \in Calls : comps'[k].parsing > comps[k].parsing => ready]_vars

\* C2: a waiting compile call is never released while the most recently
\* started setup cycle still has work outstanding.
C2_ReleasedByNewestCycle ==
  [][\A k \in Calls :
       comps[k].pc = "waiting" /\ comps'[k].pc = "resolved"
         => ~InFlight(cycles'[nSetup])]_vars

\* C3: each setup() call emits setup_done at most once, only after its
\* setup_start and after all of its work has completed without a rejection,
\* and has emitted it once its promise is resolved; ready is true only if
\* some call has got that far.
C3_SetupDoneOnceAfterAllWork ==
  /\ \A c \in Cycles :
       /\ cycles[c].done <= 1
       /\ cycles[c].done = 1 <=> cycles[c].st = "resolved"
       /\ cycles[c].done = 1 => cycles[c].start = 1 /\ WorkCompleted(cycles[c])
  /\ ready => \E c \in Cycles : cycles[c].done = 1 /\ WorkCompleted(cycles[c])

\* Two setup() calls have both completed and emitted setup_done.
C3_Witness ==
  /\ ready
  /\ \A c \in Cycles : cycles[c].done = 1

\* C4: once a load of a setup() call has failed, the coordinator emits
\* 'error', and a compile call that waits ends with 'error'.
C4_FailedSetupEmitsError ==
  /\ (\E c \in Cycles : cycles[c].st = "rejected") ~> ErrorEmitted
  /\ \A k \in Calls :
       (comps[k].pc = "waiting" /\ \E c \in Cycles : cycles[c].st = "rejected")
         ~> (comps[k].pc = "error")

\* The constructor returned early.
ConstructionFailed ==
  \/ options.input = ""
  \/ options.engine \notin KnownEngines
  \/ ~enginePkg

\* C5: an instance whose construction failed is never initialized, never
\* ready, starts no setup cycle and renders nothing.
C5_FailedConstructionIsTerminal ==
  ConstructionFailed =>
    /\ ~initialized
    /\ ~ready
    /\ \A c \in Cycles : cycles[c].st \in {"none", "threw"} /\ cycles[c].start = 0
    /\ \A k \in Calls : comps[k].pc \in {"idle", "waiting"} /\ comps[k].parsing = 0

\* After a failed construction setup() was called twice and a compile call waits.
C5_Witness ==
  /\ ConstructionFailed
  /\ \A c \in Cycles : cycles[c].st = "threw"
  /\ \E k \in Calls : comps[k].pc = "waiting"

(***************************************************************************)
(* Page data (getPageData, lines 210-237; getHelpers, lines 249-273).      *)
(*                                                                         *)
(* A JavaScript object is a function from its keys to values.  A value is  *)
(* a tagged tuple: a string <<"s", text>>, a nested object <<"m", object>>,*)
(* an array <<"a", sequence of values>>, undefined, false, or a helper     *)
(* function <<"fn", name, what it is bound to>>.                           *)
(***************************************************************************)
S(x) == <<"s", x>>
M(obj) == <<"m", obj>>
A(elements) == <<"a", elements>>
Undefined == <<"u", "undefined">>
False == <<"b", "false">>
Fn(name, bound) == <<"fn", name, bound>>

\* A plain object.
IsObject(v) == v[1] = "m"

\* Array.isArray(v)
IsArray(v) == v[1] = "a"

\* isMergeableObject(v) of the deepmerge library: an object that is no
\* special one, so a plain object or an array.
isMergeableObject(v) == IsObject(v) \/ IsArray(v)

\* JavaScript truthiness of a value.
Truthy(v) == v # Undefined /\ v # False /\ v # S("")

\* Object.assign(a, b) and Object.assign({}, a, b): b's keys over a's.
Assign(a, b) ==
  [k \in DOMAIN a \cup DOMAIN b |-> IF k \in DOMAIN b THEN b[k] ELSE a[k]]

\* deepmerge(target, source) of the deepmerge library, on two objects: the
\* result has the keys of both.  A key of source replaces the key of target
\* unless source holds a mergeable value where target has the key; these
\* two values are then merged by deepmerge itself: an array and a value
\* that is none give the value of source, two arrays are concatenated,
\* target's elements first, two objects are merged in the same way, and an
\* object over a value that is not mergeable gives the object.
RECURSIVE deepmerge(_, _)
deepmerge(target, source) ==
  [k \in DOMAIN target \cup DOMAIN source |->
     IF k \notin DOMAIN source THEN target[k]
     ELSE IF k \notin DOMAIN target \/ ~isMergeableObject(source[k]) THEN source[k]
     ELSE IF IsArray(source[k]) # IsArray(target[k]) THEN source[k]
     ELSE IF IsArray(source[k]) THEN A(target[k][2] \o source[k][2])
     ELSE IF IsObject(target[k]) THEN M(deepmerge(target[k][2], source[k][2]))
     ELSE source[k]]

\* A page file is [path, data]: path is the sequence of folders below the
\* pages folder followed by the basename and the extension; data is
\* file.data, an object or undefined.
\* path.basename(file.path, path.extname(file.path))
PageBasename(file) == file.path[Len(file.path) - 1]

\* The folders of the page below the pages folder.
PageFolders(file) == SubSeq(file.path, 1, Len(file.path) - 2)

\* pathPrefix(file.path, pagesRoot): one "../" per folder below the root.
RECURSIVE Ups(_)
Ups(n) == IF n = 0 THEN "" ELSE "../" \o Ups(n - 1)
pathPrefix(file) == S(Ups(Len(PageFolders(file))))

\* getLayout(file, attributes, options): the layout of the front matter,
\* else the layout configured for the page's folder, else the default.
getLayout(file, attributes) ==
  IF "layout" \in DOMAIN attributes /\ Truthy(attributes["layout"])
    THEN attributes["layout"]
  ELSE IF PageFolders(file) # << >> /\ PageFolders(file)[1] \in DOMAIN options.pageLayouts
    THEN S(options.pageLayouts[PageFolders(file)[1]])
  ELSE S("default")

\* file.data && file.data.paniniLocale
PageLocale(file) ==
  IF ~IsObject(file.data) THEN file.data
  ELSE IF "paniniLocale" \in DOMAIN file.data[2] THEN file.data[2]["paniniLocale"]
  ELSE Undefined

ConstantKeys == {"page", "layout", "root", "locale", "_paniniError"}

\* The constants object of lines 211-222.
PageConstants(file, attributes, error) ==
  [k \in ConstantKeys |->
     CASE k = "page" -> S(PageBasename(file))
       [] k = "layout" -> IF engine.layouts THEN getLayout(file, attributes) ELSE False
       [] k = "root" -> pathPrefix(file)
       [] k = "locale" -> PageLocale(file)
       [] k = "_paniniError" -> error]

\* templateHelpers(): the helpers of the template-helpers library.
TemplateHelperNames == {"capitalize"}
templateHelpers == [n \in TemplateHelperNames |-> Fn(n, "template-helpers")]

\* translateHelper(localeData, locale): a function closed over the locale
\* table and a locale.
translateHelper(table, locale) == <<"fn", "translate", table, locale>>

\* The helpers every engine gets: currentPage, and translate when the engine
\* supports translation and the page has a locale.
coreHelpers(file) ==
  LET current == [n \in {"currentPage"} |-> Fn("currentPage", PageBasename(file))]
  IN IF engine.i18n /\ IsObject(file.data) /\ Truthy(PageLocale(file))
       THEN Assign(current,
              [n \in {"translate"} |-> translateHelper(localeData, PageLocale(file)[2])])
       ELSE current

\* getHelpers without the early return for disabled builtins.
getHelpersAlways(file) ==
  IF options.engine = "handlebars"
    THEN Assign([n \in {"repeat"} |-> Fn("repeat", "")], coreHelpers(file))
    ELSE Assign(Assign(EmptyObj, coreHelpers(file)), templateHelpers)

\* getHelpers with translate attached whenever the page has a locale, whether
\* or not the engine supports translation.
getHelpersTranslateAnyEngine(file) ==
  IF ~options.builtins THEN EmptyObj
  ELSE LET core ==
             IF IsObject(file.data) /\ Truthy(PageLocale(file))
               THEN Assign(coreHelpers(file),
                      [n \in {"translate"} |->
                         translateHelper(localeData, PageLocale(file)[2])])
               ELSE coreHelpers(file)
       IN IF options.engine = "handlebars"
            THEN Assign([n \in {"repeat"} |-> Fn("repeat", "")], core)
            ELSE Assign(Assign(EmptyObj, core), templateHelpers)

\* getHelpers(file)
getHelpers(file) ==
  IF ~options.builtins THEN EmptyObj
  ELSE IF options.engine = "handlebars"
    THEN Assign([n \in {"repeat"} |-> Fn("repeat", "")], coreHelpers(file))
    ELSE Assign(Assign(EmptyObj, coreHelpers(file)), templateHelpers)

\* file.data || {}
FileData(file) == IF IsObject(file.data) THEN file.data[2] ELSE EmptyObj

\* The merge of lines 224-233: global data, file attributes, front matter.
MergedData(file, attributes) ==
  deepmerge(Assign(Assign(EmptyObj, engineData), FileData(file)), attributes)

\* A getPageData that calls deepmerge with its arguments exchanged.
getPageDataSwapped(file, attributes, error) ==
  Assign(Assign(deepmerge(attributes,
                          Assign(Assign(EmptyObj, engineData), FileData(file))),
                PageConstants(file, attributes, error)),
         getHelpers(file))

\* A getPageData that uses Object.assign for the front matter too.
getPageDataShallow(file, attributes, error) ==
  Assign(Assign(Assign(Assign(Assign(EmptyObj, engineData), FileData(file)), attributes),
                PageConstants(file, attributes, error)),
         getHelpers(file))

\* A getPageData that merges the front matter after the constants.
getPageDataFrontMatterLast(file, attributes, error) ==
  Assign(deepmerge(Assign(Assign(Assign(EmptyObj, engineData), FileData(file)),
                          PageConstants(file, attributes, error)),
                   attributes),
         getHelpers(file))

\* A getPageData that adds the helpers first and the data on top.
getPageDataHelpersFirst(file, attributes, error) ==
  Assign(deepmerge(Assign(Assign(getHelpers(file), engineData), FileData(file)),
                   attributes),
         PageConstants(file, attributes, error))

\* Object.assign(target, s1, s2) on named objects: the object named target
\* gets the keys of s1 and then those of s2; no other object changes.
ObjectAssign(objects, target, s1, s2) ==
  [objects EXCEPT ![target] = Assign(Assign(@, s1), s2)]

\* The objects of one call getPageData(file, attributes, error), each under
\* the expression that names or creates it, once the call has returned, for
\* a first Object.assign whose target is the object named first.  Lines
\* 224-230 assign the global data and the file attributes to that target,
\* line 233 has deepmerge make a new object from the target and the front
\* matter, and line 236 assigns the constants and the helpers to the object
\* deepmerge made, which is returned.
PageDataObjects(file, attributes, error, first) ==
  LET start == [o \in {"this.engine.data", "file.data || {}", "{}", "deepmerge()"} |->
                  CASE o = "this.engine.data" -> engineData
                    [] o = "file.data || {}" -> FileData(file)
                    [] OTHER -> EmptyObj]
      assigned == ObjectAssign(start, first, start["this.engine.data"],
                               start["file.data || {}"])
      merged == [assigned EXCEPT !["deepmerge()"] = deepmerge(assigned[first], attributes)]
  IN ObjectAssign(merged, "deepmerge()", PageConstants(file, attributes, error),
                  getHelpers(file))

\* getPageData(file, attributes, error): the first Object.assign has a new
\* object as its target (line 225).
getPageData(file, attributes, error) ==
  PageDataObjects(file, attributes, error, "{}")["deepmerge()"]

(***************************************************************************)
(* The inputs of getPageData that are explored: one key that global data,  *)
(* file attributes and front matter may all define, with values that tell  *)
(* their source, next to a key that only global data defines.              *)
(***************************************************************************)
Keys == ConstantKeys \cup {"site", "currentPage", "translate", "repeat", "capitalize"}

\* The values a source may give to the key: a string, an array, objects
\* with different keys, and an object with a nested object and a nested
\* array.
ValuesOf(src) ==
  { S(src),
    A(<<S(src)>>),
    M([j \in {"title"} |-> S(src)]),
    M([j \in {"author"} |-> S(src)]),
    M([j \in {"title", "meta", "tags"} |->
         CASE j = "title" -> S(src)
           [] j = "meta" -> M([i \in {"by", src} |-> S(src)])
           [] j = "tags" -> A(<<S(src)>>)]) }

\* The objects with at most the key k, bound to a value of the source.
ObjectsOf(src, k) == {EmptyObj} \cup {[j \in {k} |-> v] : v \in ValuesOf(src)}

PagePaths == { <<"index", ".hbs">>, <<"blog", "post", ".hbs">> }

\* A setup() call that has completed.
DoneCycle ==
  [st |-> "resolved", eng |-> "settled", files |-> << >>, loc |-> "settled",
   cols |-> [n \in CollectionFolders |->
               IF n \in ValidCollections THEN "settled" ELSE "skipped"],
   build |-> "settled", start |-> 1, done |-> 1, snap |-> << >>]

\* An instance that is ready after one setup() of a project whose data
\* folder gave the global data g.
PageInit ==
  \E k \in Keys, engineName \in {"handlebars", "pug"},
     builtins \in BOOLEAN, layouts \in BOOLEAN, i18n \in BOOLEAN :
    \E g \in ObjectsOf("G", k) :
      /\ dataFiles = << >>
      /\ enginePkg = TRUE
      /\ options = [input |-> "src", engine |-> engineName, builtins |-> builtins,
                    pageLayouts |-> [f \in {"blog"} |-> "post"]]
      /\ engine = [exists |-> TRUE, hasSetup |-> TRUE, layouts |-> layouts, i18n |-> i18n]
      /\ initialized = TRUE
      /\ ready = TRUE
      /\ nSetup = 1
      /\ cycles = [c \in Cycles |-> IF c = 1 THEN DoneCycle ELSE NoCycle]
      /\ engineData = Assign([j \in {"nav"} |-> S("G-nav")], g)
      /\ localeData = LocaleTable
      /\ collections = EmptyObj
      /\ nCompile = 0
      /\ comps = [c \in Calls |-> NoCall]
      /\ listeners = << >>
      /\ pdIn = NoPageCall
      /\ pdOut = EmptyObj
      /\ pdPrev = NoPageCall
      /\ pass = NoPass

\* What this.engine.data holds once getPageData(file, attributes, error) has
\* returned, were the first Object.assign given this.engine.data as its
\* target.
GlobalDataAfterNoCopy(file, attributes, error) ==
  PageDataObjects(file, attributes, error, "this.engine.data")["this.engine.data"]

\* What this.engine.data holds once getPageData(file, attributes, error) has
\* returned.
GlobalDataAfter(file, attributes, error) ==
  PageDataObjects(file, attributes, error, "{}")["this.engine.data"]

\* The pages getPageData is called for, as <<file, attributes, error>>.
PageInputs ==
  UNION { UNION { { << [path |-> path,
                        data |-> IF hasData
                                   THEN M(Assign(IF hasLocale
                                                   THEN [j \in {"paniniLocale"} |-> S("en")]
                                                   ELSE EmptyObj, d))
                                   ELSE Undefined],
                       attributes, error >> :
                      path \in PagePaths, attributes \in ObjectsOf("F", k),
                      error \in {Undefined, S("SyntaxError")} } :
                  d \in {e \in ObjectsOf("D", k) : hasData \/ (e = EmptyObj /\ ~hasLocale)} } :
          k \in {j \in Keys : DOMAIN engineData \subseteq {"nav", j}},
          hasData \in BOOLEAN, hasLocale \in BOOLEAN }

\* One call getPageData(file, attributes, error).
Assemble(file, attributes, error) ==
  /\ pdIn' = [called |-> TRUE, file |-> file, attributes |-> attributes,
              error |-> error]
  /\ pdOut' = getPageData(file, attributes, error)
  /\ engineData' = GlobalDataAfter(file, attributes, error)
  /\ UNCHANGED <<confVars, ready, nSetup, cycles, localeData, collections,
                 nCompile, comps, listeners, pass>>

\* The call of getPageData that render makes for the first page.
GetPageData ==
  /\ ~pdIn.called
  /\ \E x \in PageInputs : Assemble(x[1], x[2], x[3])
  /\ UNCHANGED pdPrev

\* The call of getPageData that render makes for the page after it.
GetPageDataNext ==
  /\ pdIn.called
  /\ ~pdPrev.called
  /\ \E x \in PageInputs : Assemble(x[1], x[2], x[3])
  /\ pdPrev' = [called |-> TRUE, file |-> pdIn.file, attributes |-> pdIn.attributes,
                error |-> pdIn.error, out |-> pdOut]

PageNext == GetPageData

SpecPage == PageInit /\ [][PageNext]_vars

\* The global data of the project whose pages are assembled one after the
\* other.
SeqGlobalData ==
  [j \in {"nav", "site"} |->
     IF j = "nav" THEN S("G-nav") ELSE M([i \in {"title"} |-> S("G")])]

(***************************************************************************)
(* A build pass: render, then buildPages with the sink of compile() or of  *)
(* compileStream() (lines 280-317).                                        *)
(***************************************************************************)
\* The pages of the project, in path order.
PassPages ==
  << [path |-> <<"about", ".hbs">>, data |-> Undefined],
     [path |-> <<"blog", "post", ".hbs">>, data |-> Undefined],
     [path |-> <<"index", ".hbs">>, data |-> Undefined] >>

PageIds == 1..Len(pass.pages)

\* A ready instance on which compile() or compileStream() has been called,
\* for a project with the first K pages.
BuildInit ==
  \E K \in 0..Len(PassPages), kind \in {"compile", "compileStream"},
     builtins \in BOOLEAN :
    /\ dataFiles = << >>
    /\ enginePkg = TRUE
    /\ options = [input |-> "src", engine |-> "handlebars", builtins |-> builtins,
                  pageLayouts |-> EmptyObj]
    /\ engine = [exists |-> TRUE, hasSetup |-> TRUE, layouts |-> TRUE, i18n |-> TRUE]
    /\ initialized = TRUE
    /\ ready = TRUE
    /\ nSetup = 1
    /\ cycles = [c \in Cycles |-> IF c = 1 THEN DoneCycle ELSE NoCycle]
    /\ engineData = SeqGlobalData
    /\ localeData = LocaleTable
    /\ collections = EmptyObj
    /\ nCompile = 1
    /\ comps = [k \in Calls |->
                  IF k = 1 THEN [NoCall EXCEPT !.pc = "resolved", !.kind = kind]
                           ELSE NoCall]
    /\ listeners = << >>
    /\ pdIn = NoPageCall
    /\ pdOut = EmptyObj
    /\ pdPrev = NoPageCall
    /\ pass = [NoPass EXCEPT !.pages = SubSeq(PassPages, 1, K)]

\* The errors a page fails to render with.
PageErrors == {S("SyntaxError")}

\* The catch of the chain (lines 290, 314) in a build pass: emit('error', err).
Caught(k, err) ==
  /\ comps' = [comps EXCEPT ![k].pc = "error", ![k].error = @ + 1]
  /\ pass' = [pass EXCEPT !.err = err]
  /\ UNCHANGED <<confVars, ready, nSetup, cycles, engineData, localeData,
                 collections, nCompile, listeners, pdIn, pdOut, pdPrev>>

\* A listener of 'parsing' threw inside emit() (lines 283, 305): render was
\* not called, the reaction threw and the catch runs as the next job.
ParsingCaught(k) ==
  /\ comps[k].pc = "rendering"
  /\ DOMAIN pass.out = {}
  /\ Caught(k, S("listener of parsing"))

\* The promise of render rejects for a cause that is no page's failure to
\* render, such as the pages folder that cannot be read.
RenderReject(k) ==
  /\ comps[k].pc = "rendering"
  /\ Caught(k, S("render"))

\* The promise of buildPages rejects without a write having failed, as when
\* the transform of the options throws.
BuildPagesReject(k) ==
  /\ comps[k].pc = "building"
  /\ Caught(k, S("buildPages"))

\* A render in which the failure of a page rejects the promise of render:
\* the catch of the chain emits 'error' and the pass is over.
RenderPageAborts(k, p) ==
  /\ comps[k].pc = "rendering"
  /\ p \in PageIds /\ p \notin DOMAIN pass.out
  /\ \E error \in {Undefined} \cup PageErrors :
       IF error = Undefined
         THEN /\ pass' = [pass EXCEPT
                            !.out = Assign(@, [q \in {p} |->
                                      getPageData(pass.pages[p], EmptyObj, error)])]
              /\ UNCHANGED comps
         ELSE /\ pass' = [pass EXCEPT !.failed = @ \cup {p}, !.err = error]
              /\ comps' = [comps EXCEPT ![k].pc = "error", ![k].error = @ + 1]
  /\ UNCHANGED <<confVars, ready, nSetup, cycles, engineData, localeData,
                 collections, nCompile, listeners, pdIn, pdOut, pdPrev>>

\* render, for one page: the engine renders it or fails on it; a failure is
\* kept with the page, which is then rendered as an error report from the
\* data getPageData(file, attributes, error) gives.
RenderPage(k, p) ==
  /\ comps[k].pc = "rendering"
  /\ p \in PageIds /\ p \notin DOMAIN pass.out
  /\ \E error \in {Undefined} \cup PageErrors :
       pass' = [pass EXCEPT
                  !.out = Assign(@, [q \in {p} |->
                                      getPageData(pass.pages[p], EmptyObj, error)]),
                  !.failed = IF error = Undefined THEN @ ELSE @ \cup {p}]
  /\ UNCHANGED <<confVars, lifeVars, pdIn, pdOut, pdPrev>>

\* render resolves with the list of all pages.
RenderResolve(k) ==
  /\ comps[k].pc = "rendering"
  /\ DOMAIN pass.out = PageIds
  /\ comps' = [comps EXCEPT ![k].pc = "building"]
  /\ UNCHANGED <<confVars, ready, nSetup, cycles, engineData, localeData,
                 collections, nCompile, listeners, pageVars>>

\* buildPages hands one page to the sink: compile() calls writeFile, which
\* returns a promise that settles later; compileStream() calls stream.push,
\* which has returned when the sink returns.
SinkPage(k, p) ==
  /\ comps[k].pc = "building"
  /\ p \in PageIds \ pass.sunk
  /\ pass' = [pass EXCEPT !.sunk = @ \cup {p},
                          !.written = IF comps[k].kind = "compileStream"
                                        THEN @ \cup {p} ELSE @]
  /\ UNCHANGED <<confVars, lifeVars, pdIn, pdOut, pdPrev>>

\* The pages handed to writeFile whose promise has not settled.
Writing == pass.sunk \ (pass.written \cup pass.rejected)

\* writeFile resolves for a page.
WriteResolve(k, p) ==
  /\ comps[k].pc \in {"building", "error"}
  /\ p \in Writing
  /\ pass' = [pass EXCEPT !.written = @ \cup {p}]
  /\ UNCHANGED <<confVars, lifeVars, pdIn, pdOut, pdPrev>>

\* writeFile rejects for a page: the promise of buildPages rejects with the
\* first rejection and the catch of compile() emits 'error'.
SinkReject(k, p) ==
  /\ comps[k].pc \in {"building", "error"}
  /\ p \in Writing
  /\ pass' = [pass EXCEPT !.rejected = @ \cup {p},
                          !.err = IF comps[k].pc = "building" THEN S("writeFile") ELSE @]
  /\ comps' = IF comps[k].pc = "building"
                THEN [comps EXCEPT ![k].pc = "error", ![k].error = @ + 1]
                ELSE comps
  /\ UNCHANGED <<confVars, ready, nSetup, cycles, engineData, localeData,
                 collections, nCompile, listeners, pdIn, pdOut, pdPrev>>

\* What buildPages resolves to: the number of pages and the number of them
\* whose data carries an error.
pageCount == Len(pass.pages)
errorCount == Cardinality({p \in DOMAIN pass.out : Truthy(pass.out[p]["_paniniError"])})

\* buildPages resolves: emit 'built' with data.pageCount, data.errorCount.
BuildResolve(k) ==
  /\ comps[k].pc = "building"
  /\ pass.sunk = PageIds /\ pass.written = PageIds
  /\ pass' = [pass EXCEPT !.counts = <<pageCount, errorCount>>]
  /\ \E listenerThrows \in BOOLEAN :
       comps' = [comps EXCEPT ![k] = EmitBuilt(comps[k], listenerThrows)]
  /\ UNCHANGED <<confVars, ready, nSetup, cycles, engineData, localeData,
                 collections, nCompile, listeners, pdIn, pdOut, pdPrev>>

\* The catch of the chain in a pass whose render and buildPages resolved:
\* it runs for what the reaction that emits 'built' threw.
BuiltCaught(k) ==
  /\ comps[k].pc = "caught"
  /\ Caught(k, S("listener of built"))

BuildNext ==
  \/ \E k \in Calls : CompileParse(k)
  \/ \E k \in Calls : ParsingCaught(k)
  \/ \E k \in Calls, p \in PageIds : RenderPage(k, p)
  \/ \E k \in Calls : RenderReject(k)
  \/ \E k \in Calls : RenderResolve(k)
  \/ \E k \in Calls : BuildPagesReject(k)
  \/ \E k \in Calls, p \in PageIds : SinkPage(k, p)
  \/ \E k \in Calls, p \in PageIds : WriteResolve(k, p)
  \/ \E k \in Calls, p \in PageIds : SinkReject(k, p)
  \/ \E k \in Calls : BuildResolve(k)
  \/ \E k \in Calls : BuiltCaught(k)

\* Every job of the pass that can run does run: the event loop runs the
\* queued reactions and every write settles.
SpecBuild == BuildInit /\ [][BuildNext]_vars /\ WF_vars(BuildNext)

\* That project, ready after one setup().
SeqInit ==
  /\ PageInit
  /\ options.engine = "handlebars" /\ options.builtins
  /\ engine.layouts /\ engine.i18n
  /\ engineData = SeqGlobalData

SeqNext == GetPageData \/ GetPageDataNext

SpecSeq == SeqInit /\ [][SeqNext]_vars

(***************************************************************************)
(* Properties of the page data.  F is the front matter, D the file         *)
(* attributes and G the global data of the call; H its helpers and C its   *)
(* constants.                                                              *)
(***************************************************************************)
F == pdIn.attributes
D == FileData(pdIn.file)
G == engineData
H == getHelpers(pdIn.file)
C == PageConstants(pdIn.file, pdIn.attributes, pdIn.error)

\* The value the front matter is merged over at key K: the file attribute
\* if there is one, else the global data.
Lower(K) == IF K \in DOMAIN D THEN D[K] ELSE G[K]

\* C6 as stated: at every key that front matter and global data share, the
\* page data holds the front matter's value.
C6_FrontMatterWins ==
  pdIn.called =>
    \A K \in DOMAIN F \cap DOMAIN G : pdOut[K] = F[K]

\* Two values that deepmerge combines instead of taking the second: two
\* arrays or two objects.
SameKind(a, b) == (IsArray(a) /\ IsArray(b)) \/ (IsObject(a) /\ IsObject(b))

\* The elements of the array a followed by those of the array b.
Concat(a, b) == A(a[2] \o b[2])

\* C6 as amended: at every key K that front matter and global data share
\* and that is no page constant and no helper name, the page data holds
\* F[K], unless F[K] and the value below it are both arrays or both
\* objects.  For two arrays it holds the elements of the lower one followed
\* by those of F[K]; for two objects it holds an object with F[K]'s value at
\* each nested key of F[K], except the nested keys where again both sides
\* hold arrays or both hold objects.
C6_FrontMatterWinsOnDataKeys ==
  pdIn.called =>
    \A K \in (DOMAIN F \cap DOMAIN G) \ (ConstantKeys \cup DOMAIN H) :
      IF IsArray(F[K]) /\ IsArray(Lower(K))
        THEN pdOut[K] = Concat(Lower(K), F[K])
      ELSE IF IsObject(F[K]) /\ IsObject(Lower(K))
        THEN /\ IsObject(pdOut[K])
             /\ \A j \in DOMAIN F[K][2] :
                  (j \in DOMAIN Lower(K)[2] /\ SameKind(Lower(K)[2][j], F[K][2][j]))
                  \/ pdOut[K][2][j] = F[K][2][j]
        ELSE pdOut[K] = F[K]

\* Front matter and global data share the key site: once with strings, so
\* that the front matter's string is the result, once with objects.
C6_Witness ==
  /\ pdIn.called
  /\ "site" \in DOMAIN F \cap DOMAIN G
  /\ G["site"] = M([j \in {"title"} |-> S("G")])
  /\ F["site"] = S("F")
  /\ pdOut["site"] = S("F")

\* C7 as stated: where front matter and the data below it both hold an
\* object at a key, the page data holds an object with the keys of both and
\* the front matter's value on each nested key they share; file attributes
\* replace the whole value of global data, and constants and helpers the
\* whole value of everything below them.
C7_DeepMergeForFrontMatterOnly ==
  pdIn.called =>
    /\ \A K \in DOMAIN F \ (ConstantKeys \cup DOMAIN H) :
         (K \in DOMAIN D \cup DOMAIN G /\ IsObject(F[K]) /\ IsObject(Lower(K))) =>
           /\ IsObject(pdOut[K])
           /\ DOMAIN pdOut[K][2] = DOMAIN Lower(K)[2] \cup DOMAIN F[K][2]
           /\ \A j \in DOMAIN pdOut[K][2] :
                pdOut[K][2][j] = IF j \in DOMAIN F[K][2] THEN F[K][2][j]
                                                         ELSE Lower(K)[2][j]
    /\ \A K \in (DOMAIN D \cap DOMAIN G) \ (DOMAIN F \cup ConstantKeys \cup DOMAIN H) :
         pdOut[K] = D[K]
    /\ \A K \in DOMAIN pdOut \cap (ConstantKeys \cup DOMAIN H) :
         pdOut[K] = Assign(C, H)[K]

\* The scenario of the specification: global data {site: {title}} and front
\* matter {site: {author}} give site = {title, author}.
C7_Scenario ==
  (/\ pdIn.called
   /\ "site" \in DOMAIN F \cap DOMAIN G
   /\ "site" \notin DOMAIN D
   /\ G["site"] = M([j \in {"title"} |-> S("G")])
   /\ F["site"] = M([j \in {"author"} |-> S("F")]))
  => pdOut["site"] = M([j \in {"title", "author"} |->
                          IF j = "title" THEN S("G") ELSE S("F")])

\* C7 as amended: where front matter and the data below it both hold an
\* object at a key, the page data holds an object with the keys of both.  A
\* nested key that only one side has keeps that side's value.  A nested key
\* that both have holds the front matter's value, unless both values are
\* arrays, and then it holds the lower elements followed by the front
\* matter's, or both are objects, and then it holds an object with the keys
\* of both and the front matter's value on the shared ones.  File attributes
\* replace the whole value of global data, and constants and helpers the
\* whole value of everything below them.  The scenario of the
\* specification gives site = {title, author}.
C7_DeepMergeRecursive ==
  pdIn.called =>
    /\ C7_Scenario
    /\ \A K \in DOMAIN F \ (ConstantKeys \cup DOMAIN H) :
         (K \in DOMAIN D \cup DOMAIN G /\ IsObject(F[K]) /\ IsObject(Lower(K))) =>
           /\ IsObject(pdOut[K])
           /\ DOMAIN pdOut[K][2] = DOMAIN Lower(K)[2] \cup DOMAIN F[K][2]
           /\ \A j \in DOMAIN pdOut[K][2] :
                LET out == pdOut[K][2][j] IN
                IF j \notin DOMAIN F[K][2] THEN out = Lower(K)[2][j]
                ELSE IF j \notin DOMAIN Lower(K)[2] THEN out = F[K][2][j]
                ELSE LET low == Lower(K)[2][j]
                         fm == F[K][2][j]
                     IN IF IsArray(low) /\ IsArray(fm) THEN out = Concat(low, fm)
                        ELSE IF IsObject(low) /\ IsObject(fm)
                          THEN /\ IsObject(out)
                               /\ DOMAIN out[2] = DOMAIN low[2] \cup DOMAIN fm[2]
                               /\ \A i \in DOMAIN out[2] :
                                    out[2][i] = IF i \in DOMAIN fm[2] THEN fm[2][i]
                                                                      ELSE low[2][i]
                          ELSE out = fm
    /\ \A K \in (DOMAIN D \cap DOMAIN G) \ (DOMAIN F \cup ConstantKeys \cup DOMAIN H) :
         pdOut[K] = D[K]
    /\ \A K \in DOMAIN pdOut \cap (ConstantKeys \cup DOMAIN H) :
         pdOut[K] = Assign(C, H)[K]

\* Global data and front matter both hold, at the key site, an object with
\* a string, an object and an array: the page data holds the front matter's
\* string, the two nested objects merged and the two arrays concatenated.
C7_Witness ==
  /\ pdIn.called
  /\ "site" \in DOMAIN F \cap DOMAIN G
  /\ "site" \notin DOMAIN D
  /\ IsObject(G["site"]) /\ DOMAIN G["site"][2] = {"title", "meta", "tags"}
  /\ IsObject(F["site"]) /\ DOMAIN F["site"][2] = {"title", "meta", "tags"}
  /\ pdOut["site"] =
       M([j \in {"title", "meta", "tags"} |->
            CASE j = "title" -> S("F")
              [] j = "meta" -> M([i \in {"by", "G", "F"} |->
                                   IF i = "G" THEN S("G") ELSE S("F")])
              [] j = "tags" -> A(<<S("G"), S("F")>>)])

\* C8: at the keys page, layout, root, locale and _paniniError the page data
\* holds the computed constant, whatever global data, file attributes and
\* front matter hold there, unless a helper has that name.
C8_ConstantsOverrideData ==
  pdIn.called =>
    \A K \in ConstantKeys \ DOMAIN H :
      K \in DOMAIN pdOut /\ pdOut[K] = C[K]

\* Global data, file attributes and front matter all define a constant key,
\* and the page data holds none of their values.
C8_Witness ==
  /\ pdIn.called
  /\ \E K \in ConstantKeys :
       /\ K \in DOMAIN F \cap DOMAIN D \cap DOMAIN G
       /\ pdOut[K] \notin {F[K], D[K], G[K]}

\* C9: at every key that is the name of one of the page's helpers, the page
\* data holds the helper.
C9_HelpersOverrideAll ==
  pdIn.called =>
    \A K \in DOMAIN H : K \in DOMAIN pdOut /\ pdOut[K] = H[K]

\* Global data, file attributes and front matter all define currentPage, and
\* the page data holds the helper bound to the page.
C9_Witness ==
  /\ pdIn.called
  /\ "currentPage" \in DOMAIN F \cap DOMAIN D \cap DOMAIN G
  /\ pdOut["currentPage"] = Fn("currentPage", PageBasename(pdIn.file))

\* The keys whose constant C10 says is not attached in this call.
UnattachedKeys ==
  ((IF engine.layouts THEN {} ELSE {"layout"})
     \cup (IF pdIn.error = Undefined THEN {"_paniniError"} ELSE {}))
  \ DOMAIN H

\* C10: without layout support the constants hold no key layout, and without
\* an error no key _paniniError: at such a key the page data holds what
\* front matter and data give, or nothing.
C10_NoLayoutConstantWithoutSupport ==
  pdIn.called =>
    \A K \in UnattachedKeys :
      IF K \in DOMAIN MergedData(pdIn.file, F)
        THEN K \in DOMAIN pdOut /\ pdOut[K] = MergedData(pdIn.file, F)[K]
        ELSE K \notin DOMAIN pdOut

\* A value that is a helper function.
IsHelper(v) == v[1] = "fn"

\* The basename of the page of the call: its path without folders and
\* without the extension.
Basename == pdIn.file.path[Len(pdIn.file.path) - 1]

\* The locale assigned to the page of the call, "" when it has none.
AssignedLocale ==
  IF pdIn.file.data # Undefined /\ "paniniLocale" \in DOMAIN pdIn.file.data[2]
     /\ Truthy(pdIn.file.data[2]["paniniLocale"])
    THEN pdIn.file.data[2]["paniniLocale"][2]
    ELSE ""

\* C11: with builtins disabled a page gets no helper at all; with builtins
\* enabled, for every engine name and every page, the page's currentPage is
\* the helper bound to the basename of that page.
C11_CurrentPageHelper ==
  pdIn.called =>
    IF ~options.builtins
      THEN /\ H = EmptyObj
           /\ \A K \in DOMAIN pdOut : ~IsHelper(pdOut[K])
      ELSE /\ "currentPage" \in DOMAIN H
           /\ H["currentPage"] = Fn("currentPage", Basename)
           /\ pdOut["currentPage"] = Fn("currentPage", Basename)

\* A page in a folder was assembled by an engine other than handlebars, with
\* builtins enabled, and its data carries currentPage.
C11_Witness ==
  /\ pdIn.called /\ options.builtins /\ options.engine # "handlebars"
  /\ Len(pdIn.file.path) > 2
  /\ "capitalize" \in DOMAIN pdOut
  /\ pdOut["currentPage"] = Fn("currentPage", "post")

\* C12: with builtins enabled a page gets the translate helper exactly when
\* the engine supports translation and the page has a locale assigned; the
\* helper is closed over the locale table and over the locale that the page
\* also gets as its locale constant.
C12_TranslateHelper ==
  (pdIn.called /\ options.builtins) =>
    /\ ("translate" \in DOMAIN H) <=> (engine.i18n /\ AssignedLocale # "")
    /\ ("translate" \in DOMAIN pdOut /\ IsHelper(pdOut["translate"]))
          <=> (engine.i18n /\ AssignedLocale # "")
    /\ (engine.i18n /\ AssignedLocale # "") =>
          /\ pdOut["translate"] = translateHelper(localeData, AssignedLocale)
          /\ pdOut["locale"] = S(AssignedLocale)

\* A page with the locale en was assembled for an engine that supports
\* translation and got the translate helper.
C12_Witness ==
  /\ pdIn.called /\ options.builtins /\ engine.i18n
  /\ AssignedLocale = "en"
  /\ "translate" \in DOMAIN pdOut /\ IsHelper(pdOut["translate"])

\* C20: getPageData leaves the global data as setup() loaded it: a call adds,
\* removes and replaces no top-level key of it.  So a page that is assembled
\* after another page has no key but those of the loaded global data, its
\* own file attributes, its own front matter, the constants and the
\* helpers; it has the loaded value at each key that only the global data
\* defines, and where its front matter is merged into the global data, the
\* loaded value at each nested key that only the global data defines.
C20_GlobalDataUntouched ==
  /\ engineData = SeqGlobalData
  /\ pdPrev.called =>
       /\ DOMAIN pdOut = DOMAIN SeqGlobalData \cup DOMAIN D \cup DOMAIN F
                            \cup ConstantKeys \cup DOMAIN H
       /\ \A K \in DOMAIN SeqGlobalData \ (DOMAIN D \cup DOMAIN F \cup ConstantKeys
                                              \cup DOMAIN H) :
            pdOut[K] = SeqGlobalData[K]
       /\ \A K \in (DOMAIN SeqGlobalData \cap DOMAIN F) \ (DOMAIN D \cup ConstantKeys
                                                            \cup DOMAIN H) :
            (IsObject(SeqGlobalData[K]) /\ IsObject(F[K])) =>
              /\ IsObject(pdOut[K])
              /\ DOMAIN pdOut[K][2] = DOMAIN SeqGlobalData[K][2] \cup DOMAIN F[K][2]
              /\ \A j \in DOMAIN SeqGlobalData[K][2] \ DOMAIN F[K][2] :
                   pdOut[K][2][j] = SeqGlobalData[K][2][j]

\* A page without file attributes was assembled after a page whose file
\* attributes replace the site key, and got the site of the global data.
C20_Witness ==
  /\ pdPrev.called
  /\ pdPrev.file.data # Undefined /\ "site" \in DOMAIN pdPrev.file.data[2]
  /\ pdPrev.out["site"] = S("D")
  /\ pdIn.file.data = Undefined /\ pdIn.attributes = EmptyObj
  /\ pdOut["site"] = SeqGlobalData["site"]

\* The pass of call k is past render.
Rendered(k) == comps[k].pc \in {"building", "built", "caught"} \/ comps[k].built > 0

\* C13: a build pass over K pages of which E fail to render is not aborted
\* by the failures.  'error' is emitted at most once, and the error it
\* carries is never that of a page: it comes from a throwing listener, from
\* a rejected write or from render or buildPages rejecting for another
\* cause.  Once render has resolved it has given K pages and the pages with
\* an error in their data are exactly the E that failed; when 'built' is
\* emitted, the sink was called for all K, no write failed and 'built'
\* carries (K, E), once, and until its listeners have returned no 'error'
\* was emitted.  Every pass ends with 'built' or with an 'error' that is not
\* a page's.
C13_FailedPagesDoNotAbort ==
  /\ [](\A k \in Calls :
          /\ comps[k].error <= 1
          /\ comps[k].pc # "idle" => (comps[k].error > 0 <=> pass.err # Undefined)
          /\ pass.err \notin PageErrors
          /\ (comps[k].error > 0 /\ comps[k].built > 0) => pass.err = S("listener of built")
          /\ pass.err = S("writeFile") => pass.rejected # {}
          /\ comps[k].pc = "built" => comps[k].error = 0
          /\ Rendered(k) =>
                /\ DOMAIN pass.out = 1..Len(pass.pages)
                /\ {p \in DOMAIN pass.out : pass.out[p]["_paniniError"] # Undefined}
                     = pass.failed
          /\ comps[k].built > 0 =>
                /\ pass.sunk = 1..Len(pass.pages)
                /\ pass.rejected = {}
                /\ pass.counts = <<Len(pass.pages), Cardinality(pass.failed)>>
                /\ comps[k].built = 1)
  /\ \A k \in Calls :
       (comps[k].pc = "resolved")
         ~> (comps[k].built = 1 \/ (comps[k].error = 1 /\ pass.err \notin PageErrors))

\* A pass over three pages, two of which failed, has emitted 'built'.
C13_Witness ==
  /\ comps[1].pc = "built" /\ comps[1].error = 0
  /\ Len(pass.pages) = 3
  /\ Cardinality(pass.failed) = 2
  /\ pass.counts = <<3, 2>>

\* What the caller saw after setup() call c: its reaction ran before any
\* later setup() call was made.
SeenAfter(c) == cycles[c].snap # << >> /\ cycles[c].snap[3] = c

\* C14: when setup() is called again after the call before has completed and
\* the files have not changed, the global data and the locale table a caller
\* reads after one call are those it reads after the other, in whatever
\* order the loads complete.
C14_SetupIdempotent ==
  \A c1, c2 \in Cycles :
    (SeenAfter(c1) /\ SeenAfter(c2)) =>
      /\ cycles[c1].snap[1] = cycles[c2].snap[1]
      /\ cycles[c1].snap[2] = cycles[c2].snap[2]

\* The data files that are the last with their basename in path order.
LaterDiscovered == {i \in FileIds : \A j \in FileIds : DataName(j) = DataName(i) => j <= i}

\* C16: when two data files have the same basename, the global data holds
\* under that name, once the setup() call has completed, the content of the
\* file that is later in path order, in whatever order the loads complete.
C16_LaterDiscoveredWins ==
  \A c \in Cycles :
    (nSetup = c /\ cycles[c].st = "resolved") =>
      \A i \in LaterDiscovered :
        /\ DataName(i) \in DOMAIN engineData
        /\ engineData[DataName(i)] = DataContent(i)

\* C15: each setup() replaces the global data, the locale table and the
\* collections as a whole: whenever the instance is ready, under any
\* interleaving of setup() calls, each of them holds all the entries of the
\* project and no ready state shows one that is only partly filled.
C15_WholesaleReplacement ==
  ready =>
    /\ DOMAIN engineData = {DataName(i) : i \in FileIds}
    /\ localeData = LocaleTable
    /\ DOMAIN collections = ValidCollections

\* C17: a setup() that completes leaves one collection for each folder whose
\* config module can be required, under the folder's name, holding the
\* config and the template; the other folders are skipped and fail nothing.
C17_InvalidCollectionsSkipped ==
  /\ \A c \in Cycles, n \in CollectionFolders \ ValidCollections :
        cycles[c].cols[n] \in {"none", "skipped"}
  /\ (nSetup > 0 /\ cycles[nSetup].st = "resolved") =>
        collections = [n \in ValidCollections |-> [config |-> n, template |-> n]]

\* A setup() has completed for a project with a valid and an invalid
\* collection folder.
C17_Witness ==
  /\ nSetup > 0 /\ cycles[nSetup].st = "resolved"
  /\ cycles[nSetup].cols["drafts"] = "skipped"
  /\ ValidCollections # {} /\ CollectionFolders \ ValidCollections # {}
  /\ "posts" \in DOMAIN collections /\ "drafts" \notin DOMAIN collections

\* C18: the engine's setup() is optional: on an instance whose engine has
\* none, every setup() call that has started settles, and resolves, sets
\* ready and emits setup_done when none of its loads fails, as it does for an
\* engine that has one.
C18_EngineSetupOptional ==
  \A c \in Cycles :
    (engine.exists /\ ~engine.hasSetup /\ cycles[c].start = 1)
      ~> (cycles[c].st \in {"resolved", "rejected"})

\* C19: every compile() or compileStream() call ends with exactly one of
\* 'built' and 'error', provided a setup() call has started its loads: it
\* emits never both, 'parsing' at most once, and eventually one of them, also when
\* it was made while the instance was not ready and the setup() it waits for
\* fails.
C19_CompileEndsWithOneOutcome ==
  /\ [](\A k \in Calls : comps[k].built + comps[k].error <= 1 /\ comps[k].parsing <= 1)
  /\ \A k \in Calls :
       (comps[k].pc # "idle"
          /\ \E c \in Cycles : cycles[c].st \in {"pending", "resolved", "rejected"})
         ~> (comps[k].built + comps[k].error = 1)
====
